---- MODULE Spec2Model ----
(***************************************************************************)
(* Model of the tic-tac-toe session of src/app/page.tsx: the React state   *)
(* of Home (board, isPlayerTurn, gameStatus, winner, score), the pending   *)
(* setTimeout of the computer-move effect, and the handlers                *)
(* handleCellClick, the timer callback, resetGame and resetScore.          *)
(* Every handler is one action; the re-run of the effect after the render  *)
(* that the handler causes is part of the action.                          *)
(* The engine functions checkWinner, checkDraw, getAvailableMoves and      *)
(* getComputerMove are operators; EngineSpec applies them to every board   *)
(* of nine cells (argBoard, call, result).                                 *)
(* The GET handler of the placeholder-image route, src/unnamed/part_000,   *)
(* is one action of PlaceholderSpec (searchParams, svg).                   *)
(***************************************************************************)
EXTENDS Integers, Sequences, FiniteSets, TLC

VARIABLES board, isPlayerTurn, gameStatus, winner, score, timer,
          lastOp, lastCell, lastEffect, lastMover,
          argBoard, call, result, repeated,
          searchParams, svg

sessionVars == <<board, isPlayerTurn, gameStatus, winner, score, timer,
                 lastOp, lastCell, lastEffect, lastMover>>

\* An engine function applied on its own: the board passed, the function
\* called, the value it returned, and whether the call before it was a call
\* of the same function.
engineVars == <<argBoard, call, result, repeated>>

\* The placeholder-image route of src/unnamed/part_000: the query string of
\* the request and the width and height attributes of the SVG sent back.
placeholderVars == <<searchParams, svg>>

vars == <<sessionVars, engineVars, placeholderVars>>

\* Largest value a score counter takes in the model: the number of games
\* tallied before a resetScore.
MaxScore == 1

\* JavaScript null (an empty cell, no winner) and undefined (array read out of range).
null == "null"
undefined == -1

Cells == 0..8

EmptyBoard == [i \in Cells |-> null]

WINNING_COMBINATIONS ==
  << <<0, 1, 2>>, <<3, 4, 5>>, <<6, 7, 8>>,
     <<0, 3, 6>>, <<1, 4, 7>>, <<2, 5, 8>>,
     <<0, 4, 8>>, <<2, 4, 6>> >>

\* The for-loop of checkWinner from combination k on: first match returns.
RECURSIVE checkWinnerFrom(_, _, _)
checkWinnerFrom(combos, b, k) ==
  IF k > Len(combos) THEN null
  ELSE LET a == combos[k][1]
           bb == combos[k][2]
           c == combos[k][3]
       IN IF b[a] # null /\ b[a] = b[bb] /\ b[a] = b[c]
            THEN b[a]
            ELSE checkWinnerFrom(combos, b, k + 1)

checkWinnerNoAntiDiagonal(b) ==
  checkWinnerFrom(SubSeq(WINNING_COMBINATIONS, 1, 7), b, 1)

checkWinnerLastLine(b) ==
  checkWinnerFrom([k \in 1..8 |-> WINNING_COMBINATIONS[9 - k]], b, 1)

checkWinner(b) == checkWinnerFrom(WINNING_COMBINATIONS, b, 1)

checkDrawUnlessWon(b) ==
  (\A i \in Cells : b[i] # null) /\ checkWinner(b) = null

checkDraw(b) == \A i \in Cells : b[i] # null

\* board.map(cell === null ? index : -1).filter(index !== -1)
getAvailableMovesDropsZero(b) ==
  LET mapped == [k \in 1..9 |-> IF b[k - 1] = null THEN k - 1 ELSE -1]
      keep(x) == x > 0
  IN SelectSeq(mapped, keep)

getAvailableMoves(b) ==
  LET mapped == [k \in 1..9 |-> IF b[k - 1] = null THEN k - 1 ELSE -1]
      keep(x) == x # -1
  IN SelectSeq(mapped, keep)

includes(seq, x) == \E k \in 1..Len(seq) : seq[k] = x

\* The steps of getComputerMove: the moves the win loop and the block loop
\* accept, the available corners, and the indices a random pick can select.
winMovesOf(b) ==
  LET wins(m) == checkWinner([b EXCEPT ![m] = "O"]) = "O"
  IN SelectSeq(getAvailableMoves(b), wins)

blockMovesOf(b) ==
  LET blocks(m) == checkWinner([b EXCEPT ![m] = "X"]) = "X"
  IN SelectSeq(getAvailableMoves(b), blocks)

availableCornersOf(b) ==
  LET inAvailable(c) == includes(getAvailableMoves(b), c)
  IN SelectSeq(<<0, 2, 6, 8>>, inAvailable)

randomOf(seq) ==
  IF Len(seq) = 0 THEN {undefined} ELSE {seq[k] : k \in 1..Len(seq)}

getComputerMoveBlockFirst(b) ==
  IF Len(blockMovesOf(b)) > 0 THEN {blockMovesOf(b)[1]}
  ELSE IF Len(winMovesOf(b)) > 0 THEN {winMovesOf(b)[1]}
  ELSE IF includes(getAvailableMoves(b), 4) THEN {4}
  ELSE IF Len(availableCornersOf(b)) > 0 THEN randomOf(availableCornersOf(b))
  ELSE randomOf(getAvailableMoves(b))

getComputerMoveLastBlock(b) ==
  IF Len(winMovesOf(b)) > 0 THEN {winMovesOf(b)[1]}
  ELSE IF Len(blockMovesOf(b)) > 0
    THEN {blockMovesOf(b)[Len(blockMovesOf(b))]}
  ELSE IF includes(getAvailableMoves(b), 4) THEN {4}
  ELSE IF Len(availableCornersOf(b)) > 0 THEN randomOf(availableCornersOf(b))
  ELSE randomOf(getAvailableMoves(b))

getComputerMoveCornerFirst(b) ==
  IF Len(winMovesOf(b)) > 0 THEN {winMovesOf(b)[1]}
  ELSE IF Len(blockMovesOf(b)) > 0 THEN {blockMovesOf(b)[1]}
  ELSE IF Len(availableCornersOf(b)) > 0 THEN randomOf(availableCornersOf(b))
  ELSE IF includes(getAvailableMoves(b), 4) THEN {4}
  ELSE randomOf(getAvailableMoves(b))

getComputerMoveFirstCorner(b) ==
  IF Len(winMovesOf(b)) > 0 THEN {winMovesOf(b)[1]}
  ELSE IF Len(blockMovesOf(b)) > 0 THEN {blockMovesOf(b)[1]}
  ELSE IF includes(getAvailableMoves(b), 4) THEN {4}
  ELSE IF Len(availableCornersOf(b)) > 0 THEN {availableCornersOf(b)[1]}
  ELSE randomOf(getAvailableMoves(b))

getComputerMoveFirstAvailable(b) ==
  IF Len(winMovesOf(b)) > 0 THEN {winMovesOf(b)[1]}
  ELSE IF Len(blockMovesOf(b)) > 0 THEN {blockMovesOf(b)[1]}
  ELSE IF includes(getAvailableMoves(b), 4) THEN {4}
  ELSE IF Len(availableCornersOf(b)) > 0 THEN randomOf(availableCornersOf(b))
  ELSE IF Len(getAvailableMoves(b)) = 0 THEN {undefined}
  ELSE {getAvailableMoves(b)[1]}

getComputerMoveFabricates(b) ==
  IF Len(winMovesOf(b)) > 0 THEN {winMovesOf(b)[1]}
  ELSE IF Len(blockMovesOf(b)) > 0 THEN {blockMovesOf(b)[1]}
  ELSE IF includes(getAvailableMoves(b), 4) THEN {4}
  ELSE IF Len(availableCornersOf(b)) > 0 THEN randomOf(availableCornersOf(b))
  ELSE IF Len(getAvailableMoves(b)) = 0 THEN {0}
  ELSE randomOf(getAvailableMoves(b))

\* The values getComputerMove can return on b: one value where the code is
\* deterministic, every index Math.floor(Math.random() * length) can select
\* where it is not, undefined for a read of an empty array.
getComputerMove(b) ==
  LET availableMoves == getAvailableMoves(b)
      wins(m) == checkWinner([b EXCEPT ![m] = "O"]) = "O"
      blocks(m) == checkWinner([b EXCEPT ![m] = "X"]) = "X"
      winMoves == SelectSeq(availableMoves, wins)
      blockMoves == SelectSeq(availableMoves, blocks)
      inAvailable(c) == includes(availableMoves, c)
      availableCorners == SelectSeq(<<0, 2, 6, 8>>, inAvailable)
  IN IF Len(winMoves) > 0 THEN {winMoves[1]}
     ELSE IF Len(blockMoves) > 0 THEN {blockMoves[1]}
     ELSE IF includes(availableMoves, 4) THEN {4}
     ELSE IF Len(availableCorners) > 0
       THEN {availableCorners[k] : k \in 1..Len(availableCorners)}
     ELSE IF Len(availableMoves) = 0 THEN {undefined}
     ELSE {availableMoves[k] : k \in 1..Len(availableMoves)}

\* newBoard = [...b]; newBoard[i] = mark (an undefined index sets no cell).
placeOnFreshArray(b, i, mark) ==
  IF i \in Cells THEN [EmptyBoard EXCEPT ![i] = mark] ELSE b

place(b, i, mark) == IF i \in Cells THEN [b EXCEPT ![i] = mark] ELSE b

NoTimer == [pending |-> FALSE, board |-> EmptyBoard]

ZeroScore == [player |-> 0, computer |-> 0, draws |-> 0]

\* The computer-move effect after a render in which one of its dependencies
\* changed: the cleanup of the previous run clears its timer, then a new
\* timer capturing the rendered board is set when it is the computer's turn.
effectKeepsOldTimer(oldTimer, b, turn, status) ==
  IF ~turn /\ status = "playing"
    THEN [pending |-> TRUE, board |-> b]
    ELSE oldTimer

effectIgnoresStatus(oldTimer, b, turn, status) ==
  IF ~turn
    THEN [pending |-> TRUE, board |-> b]
    ELSE NoTimer

effectNeverSetsTimer(oldTimer, b, turn, status) == NoTimer

effectCapturesStaleBoard(oldTimer, b, turn, status) ==
  IF ~turn /\ status = "playing"
    THEN [pending |-> TRUE, board |-> oldTimer.board]
    ELSE NoTimer

computerMoveEffect(oldTimer, b, turn, status) ==
  IF ~turn /\ status = "playing"
    THEN [pending |-> TRUE, board |-> b]
    ELSE NoTimer

\* What the effect run did: scheduled a timer, cancelled one that had not
\* fired, or found nothing to do.
effectOutcome(oldPending, newTimer) ==
  IF newTimer.pending THEN "set"
  ELSE IF oldPending THEN "cleared"
  ELSE "idle"

InBound(s) ==
  s.player <= MaxScore /\ s.computer <= MaxScore /\ s.draws <= MaxScore

\* The model plays on only while fewer than MaxScore games are tallied, so
\* that the result of the game fits its counter and a pending timer can
\* always fire.
CanTally(s) == s.player + s.computer + s.draws < MaxScore

SessionInitComputerFirst ==
  /\ board = EmptyBoard
  /\ isPlayerTurn = FALSE
  /\ gameStatus = "playing"
  /\ winner = null
  /\ score = ZeroScore
  /\ timer = [pending |-> TRUE, board |-> EmptyBoard]
  /\ lastOp = "init"
  /\ lastCell = undefined
  /\ lastEffect = "set"
  /\ lastMover = "none"

SessionInit ==
  /\ board = EmptyBoard
  /\ isPlayerTurn = TRUE
  /\ gameStatus = "playing"
  /\ winner = null
  /\ score = ZeroScore
  /\ timer = NoTimer
  /\ lastOp = "init"
  /\ lastCell = undefined
  /\ lastEffect = "idle"
  /\ lastMover = "none"

\* No request has reached the placeholder route.
NoParam == [has |-> FALSE, value |-> <<>>]

NoRequest == [width |-> NoParam, height |-> NoParam]

NoResponse == [sent |-> FALSE, width |-> <<>>, height |-> <<>>]

Init ==
  /\ SessionInit
  /\ argBoard = EmptyBoard
  /\ call = "none"
  /\ result = null
  /\ repeated = FALSE
  /\ searchParams = NoRequest
  /\ svg = NoResponse

\* The early return of handleCellClick.
clickRejectedIgnoresTurn(i) ==
  board[i] # null \/ gameStatus # "playing"

clickRejectedIgnoresStatus(i) ==
  board[i] # null \/ ~isPlayerTurn

clickRejectedIgnoresCell(i) ==
  gameStatus # "playing" \/ ~isPlayerTurn

clickRejected(i) ==
  board[i] # null \/ gameStatus # "playing" \/ ~isPlayerTurn

\* The evaluation after the player's mark is placed: win check, then draw check.
playerMoveOutcomeNoDraw(newBoard) ==
  IF checkWinner(newBoard) # null THEN "won"
  ELSE "playing"

playerMoveOutcomeNoWin(newBoard) ==
  IF checkDraw(newBoard) THEN "draw"
  ELSE "playing"

playerMoveOutcome(newBoard) ==
  IF checkWinner(newBoard) # null THEN "won"
  ELSE IF checkDraw(newBoard) THEN "draw"
  ELSE "playing"

\* The evaluation after the computer's mark is placed.
computerMoveOutcomeNoWin(newBoard) ==
  IF checkDraw(newBoard) THEN "draw"
  ELSE "playing"

computerMoveOutcome(newBoard) ==
  IF checkWinner(newBoard) # null THEN "won"
  ELSE IF checkDraw(newBoard) THEN "draw"
  ELSE "playing"

\* The setScore updaters of handleCellClick.
playerMoveScoreDrawUntallied(outcome, prev) ==
  IF outcome = "won" THEN [prev EXCEPT !.player = prev.player + 1]
  ELSE prev

playerMoveScore(outcome, prev) ==
  IF outcome = "won" THEN [prev EXCEPT !.player = prev.player + 1]
  ELSE IF outcome = "draw" THEN [prev EXCEPT !.draws = prev.draws + 1]
  ELSE prev

\* The setScore updaters of the timer callback.
computerMoveScore(outcome, prev) ==
  IF outcome = "won" THEN [prev EXCEPT !.computer = prev.computer + 1]
  ELSE IF outcome = "draw" THEN [prev EXCEPT !.draws = prev.draws + 1]
  ELSE prev

HandleCellClick(i) ==
  IF clickRejected(i)
    THEN /\ lastOp' = "rejected"
         /\ lastCell' = i
         /\ lastEffect' = "none"
         /\ UNCHANGED <<board, isPlayerTurn, gameStatus, winner, score,
                        timer, lastMover>>
         /\ UNCHANGED <<engineVars, placeholderVars>>
    ELSE LET newBoard == place(board, i, "X")
             outcome == playerMoveOutcome(newBoard)
         IN /\ board' = newBoard
            /\ gameStatus' = outcome
            /\ winner' = IF outcome = "won" THEN "Player" ELSE winner
            /\ score' = playerMoveScore(outcome, score)
            /\ CanTally(score)
            /\ isPlayerTurn' = IF outcome = "playing" THEN FALSE
                               ELSE isPlayerTurn
            /\ timer' = computerMoveEffect(timer, newBoard, isPlayerTurn',
                                           gameStatus')
            /\ lastEffect' = effectOutcome(timer.pending, timer')
            /\ lastOp' = "click"
            /\ lastCell' = i
            /\ lastMover' = "X"
            /\ UNCHANGED <<engineVars, placeholderVars>>

\* The setTimeout callback of the effect; it works on the board the effect
\* captured when it set the timer.
TimerFireAlwaysFlipsTurn ==
  /\ timer.pending
  /\ \E computerMove \in getComputerMove(timer.board) :
       LET newBoard == place(timer.board, computerMove, "O")
           outcome == computerMoveOutcome(newBoard)
       IN /\ board' = newBoard
          /\ gameStatus' = outcome
          /\ winner' = IF outcome = "won" THEN "Computer" ELSE winner
          /\ score' = computerMoveScore(outcome, score)
          /\ InBound(score')
          /\ isPlayerTurn' = TRUE
          /\ timer' = computerMoveEffect(NoTimer, newBoard, isPlayerTurn',
                                         gameStatus')
          /\ lastEffect' = effectOutcome(FALSE, timer')
          /\ lastOp' = "timer"
          /\ lastCell' = computerMove
          /\ lastMover' = "O"
          /\ UNCHANGED <<engineVars, placeholderVars>>

TimerFire ==
  /\ timer.pending
  /\ \E computerMove \in getComputerMove(timer.board) :
       LET newBoard == place(timer.board, computerMove, "O")
           outcome == computerMoveOutcome(newBoard)
       IN /\ board' = newBoard
          /\ gameStatus' = outcome
          /\ winner' = IF outcome = "won" THEN "Computer" ELSE winner
          /\ score' = computerMoveScore(outcome, score)
          /\ InBound(score')
          /\ isPlayerTurn' = IF outcome = "playing" THEN TRUE
                             ELSE isPlayerTurn
          /\ timer' = computerMoveEffect(NoTimer, newBoard, isPlayerTurn',
                                         gameStatus')
          /\ lastEffect' = effectOutcome(FALSE, timer')
          /\ lastOp' = "timer"
          /\ lastCell' = computerMove
          /\ lastMover' = "O"
          /\ UNCHANGED <<engineVars, placeholderVars>>

resetGameTalliesAbandoned ==
  /\ board' = EmptyBoard
  /\ isPlayerTurn' = TRUE
  /\ gameStatus' = "playing"
  /\ winner' = null
  /\ timer' = computerMoveEffect(timer, EmptyBoard, TRUE, "playing")
  /\ lastEffect' = effectOutcome(timer.pending, timer')
  /\ lastOp' = "resetGame"
  /\ lastCell' = undefined
  /\ lastMover' = "none"
  /\ score' = IF gameStatus = "playing" /\ board # EmptyBoard
                THEN [score EXCEPT !.computer = @ + 1]
                ELSE score
  /\ UNCHANGED <<engineVars, placeholderVars>>

resetGameKeepsWinner ==
  /\ board' = EmptyBoard
  /\ isPlayerTurn' = TRUE
  /\ gameStatus' = "playing"
  /\ timer' = computerMoveEffect(timer, EmptyBoard, TRUE, "playing")
  /\ lastEffect' = effectOutcome(timer.pending, timer')
  /\ lastOp' = "resetGame"
  /\ lastCell' = undefined
  /\ lastMover' = "none"
  /\ UNCHANGED <<score, winner>>
  /\ UNCHANGED <<engineVars, placeholderVars>>

resetGame ==
  /\ board' = EmptyBoard
  /\ isPlayerTurn' = TRUE
  /\ gameStatus' = "playing"
  /\ winner' = null
  /\ timer' = computerMoveEffect(timer, EmptyBoard, TRUE, "playing")
  /\ lastEffect' = effectOutcome(timer.pending, timer')
  /\ lastOp' = "resetGame"
  /\ lastCell' = undefined
  /\ lastMover' = "none"
  /\ UNCHANGED score
  /\ UNCHANGED <<engineVars, placeholderVars>>

\* score is not a dependency of the effect: the render resetScore causes
\* does not re-run it.
resetScoreRerunsEffect ==
  /\ score' = ZeroScore
  /\ timer' = computerMoveEffect(timer, board, isPlayerTurn, gameStatus)
  /\ lastEffect' = effectOutcome(timer.pending, timer')
  /\ lastOp' = "resetScore"
  /\ lastCell' = undefined
  /\ UNCHANGED <<board, isPlayerTurn, gameStatus, winner, lastMover>>
  /\ UNCHANGED <<engineVars, placeholderVars>>

resetScore ==
  /\ score' = ZeroScore
  /\ lastEffect' = "none"
  /\ lastOp' = "resetScore"
  /\ lastCell' = undefined
  /\ UNCHANGED <<board, isPlayerTurn, gameStatus, winner, timer, lastMover>>
  /\ UNCHANGED <<engineVars, placeholderVars>>

Click == \E i \in Cells : HandleCellClick(i)

Next == Click \/ TimerFire \/ resetGame \/ resetScore

Spec == Init /\ [][Next]_vars

\* setTimeout runs its callback unless clearTimeout cancels it first.
FairSpec == Spec /\ WF_vars(TimerFire)

TypeOK ==
  /\ board \in [Cells -> {"X", "O", null}]
  /\ isPlayerTurn \in BOOLEAN
  /\ gameStatus \in {"playing", "won", "draw"}
  /\ winner \in {"Player", "Computer", null}
  /\ InBound(score)
  /\ timer.pending \in BOOLEAN
  /\ lastOp \in {"init", "click", "rejected", "timer", "resetGame", "resetScore"}
  /\ lastCell \in Cells \cup {undefined}
  /\ lastEffect \in {"none", "idle", "set", "cleared"}
  /\ lastMover \in {"none", "X", "O"}

----------------------------------------------------------------------------
(* The engine functions applied to an arbitrary board of nine cells. *)

Boards == [Cells -> {"X", "O", null}]

\* The array writes of getComputerMove, in order: each trial of the win
\* loop up to the move it returns, then, when it returns none, each trial
\* of the block loop up to the move it returns.  Every write goes to
\* testBoard, the copy [...board] made for the trial.
triedThrough(moves, hits) ==
  LET upToHit(m) == m <= hits[1]
  IN IF Len(hits) = 0 THEN moves ELSE SelectSeq(moves, upToHit)

trialWritesTo(target, b) ==
  LET winTrials == triedThrough(getAvailableMoves(b), winMovesOf(b))
      blockTrials == IF Len(winMovesOf(b)) > 0 THEN <<>>
                     ELSE triedThrough(getAvailableMoves(b), blockMovesOf(b))
  IN [k \in 1..Len(winTrials) |->
        [array |-> target, index |-> winTrials[k], value |-> "O"]]
     \o [k \in 1..Len(blockTrials) |->
        [array |-> target, index |-> blockTrials[k], value |-> "X"]]

trialWritesAliased(b) == trialWritesTo("board", b)

trialWrites(b) == trialWritesTo("testBoard", b)

\* The passed array after the writes: only a write to it changes it.
RECURSIVE afterWrites(_, _, _)
afterWrites(b, writes, k) ==
  IF k > Len(writes) THEN b
  ELSE afterWrites(IF writes[k].array = "board"
                     THEN [b EXCEPT ![writes[k].index] = writes[k].value]
                     ELSE b,
                   writes, k + 1)

EngineInit ==
  /\ SessionInit
  /\ argBoard \in Boards
  /\ call = "none"
  /\ result = null
  /\ repeated = FALSE
  /\ searchParams = NoRequest
  /\ svg = NoResponse

CallCheckWinner ==
  /\ call' = "checkWinner"
  /\ result' = checkWinner(argBoard)
  /\ repeated' = (call = "checkWinner")
  /\ UNCHANGED <<argBoard, sessionVars, placeholderVars>>

CallCheckDraw ==
  /\ call' = "checkDraw"
  /\ result' = checkDraw(argBoard)
  /\ repeated' = (call = "checkDraw")
  /\ UNCHANGED <<argBoard, sessionVars, placeholderVars>>

CallGetAvailableMoves ==
  /\ call' = "getAvailableMoves"
  /\ result' = getAvailableMoves(argBoard)
  /\ repeated' = (call = "getAvailableMoves")
  /\ UNCHANGED <<argBoard, sessionVars, placeholderVars>>

CallGetComputerMove ==
  /\ call' = "getComputerMove"
  /\ \E move \in getComputerMove(argBoard) : result' = move
  /\ repeated' = (call = "getComputerMove")
  /\ argBoard' = afterWrites(argBoard, trialWrites(argBoard), 1)
  /\ UNCHANGED <<sessionVars, placeholderVars>>

EngineNext ==
  \/ CallCheckWinner
  \/ CallCheckDraw
  \/ CallGetAvailableMoves
  \/ CallGetComputerMove

EngineSpec == EngineInit /\ [][EngineNext]_vars

-----------------------------------------------------------------------------
(* The placeholder-image route, src/unnamed/part_000: GET reads the width   *)
(* and height query parameters, converts each with Number, falls back to    *)
(* 512 with ||, and writes both numbers into the <svg> tag through a        *)
(* template literal.  A string is a sequence of one-character strings.  A   *)
(* number is NaN or a signed decimal fraction num / den, den a power of     *)
(* ten, kept in lowest terms.                                               *)

DigitChars == <<"0", "1", "2", "3", "4", "5", "6", "7", "8", "9">>

isDigit(c) == \E k \in 1..10 : DigitChars[k] = c

digitValue(c) == (CHOOSE k \in 1..10 : DigitChars[k] = c) - 1

allDigits(s) == \A k \in 1..Len(s) : isDigit(s[k])

RECURSIVE digitsValue(_)
digitsValue(s) ==
  IF s = <<>> THEN 0
  ELSE digitsValue(SubSeq(s, 1, Len(s) - 1)) * 10 + digitValue(s[Len(s)])

RECURSIVE pow10(_)
pow10(n) == IF n = 0 THEN 1 ELSE 10 * pow10(n - 1)

NaN == [nan |-> TRUE, neg |-> FALSE, num |-> 0, den |-> 1]

RECURSIVE number(_, _, _)
number(neg, num, den) ==
  IF den > 1 /\ num % 10 = 0
  THEN number(neg, num \div 10, den \div 10)
  ELSE [nan |-> FALSE, neg |-> neg, num |-> num, den |-> den]

\* The white space StringToNumber strips from both ends.
RECURSIVE trimStart(_)
trimStart(s) ==
  IF s # <<>> /\ s[1] = " " THEN trimStart(Tail(s)) ELSE s

RECURSIVE trimEnd(_)
trimEnd(s) ==
  IF s # <<>> /\ s[Len(s)] = " "
  THEN trimEnd(SubSeq(s, 1, Len(s) - 1))
  ELSE s

\* StrUnsignedDecimalLiteral without exponent: digits, digits "." digits,
\* digits ".", or "." digits.
unsignedDecimal(neg, u) ==
  LET dots == {k \in 1..Len(u) : u[k] = "."}
  IN  IF dots = {}
      THEN IF u # <<>> /\ allDigits(u)
           THEN number(neg, digitsValue(u), 1)
           ELSE NaN
      ELSE LET d == CHOOSE k \in dots : \A j \in dots : k <= j
               int == SubSeq(u, 1, d - 1)
               frac == SubSeq(u, d + 1, Len(u))
           IN  IF allDigits(int) /\ allDigits(frac) /\ Len(int) + Len(frac) > 0
               THEN number(neg,
                           digitsValue(int) * pow10(Len(frac)) + digitsValue(frac),
                           pow10(Len(frac)))
               ELSE NaN

\* Number applied to a string: the empty or blank string is 0, a signed
\* decimal literal is its value, anything else is NaN.  (The strings of
\* ParamValues use no exponent, no radix prefix and no Infinity.)
StringToNumber(s) ==
  LET t == trimEnd(trimStart(s))
  IN  IF t = <<>> THEN number(FALSE, 0, 1)
      ELSE IF t[1] = "-" THEN unsignedDecimal(TRUE, Tail(t))
      ELSE IF t[1] = "+" THEN unsignedDecimal(FALSE, Tail(t))
      ELSE unsignedDecimal(FALSE, t)

\* searchParams.get(name): null when the parameter is absent.
get(params, name) == params[name]

\* Number(searchParams.get(name)): Number(null) is 0.
Number(p) == IF p.has THEN StringToNumber(p.value) ELSE number(FALSE, 0, 1)

\* ToBoolean of a number: NaN, 0 and -0 are falsy.
ToBoolean(n) == ~n.nan /\ n.num # 0

orElseNullish(n, fallback) == n

\* n || fallback
orElse(n, fallback) == IF ToBoolean(n) THEN n ELSE fallback

defaultSize == 512

RECURSIVE digitsOf(_)
digitsOf(n) ==
  IF n < 10 THEN <<DigitChars[n + 1]>>
  ELSE digitsOf(n \div 10) \o <<DigitChars[(n % 10) + 1]>>

RECURSIVE fractionDigitsOf(_, _)
fractionDigitsOf(r, den) ==
  IF den = 1 THEN <<>>
  ELSE <<DigitChars[(r \div (den \div 10)) + 1]>>
         \o fractionDigitsOf(r % (den \div 10), den \div 10)

\* `${n}`: Number::toString in radix 10, for 1e-6 <= |n| < 1e21 or n = 0.
numberToString(n) ==
  IF n.nan THEN <<"N", "a", "N">>
  ELSE IF n.num = 0 THEN <<"0">>
  ELSE (IF n.neg THEN <<"-">> ELSE <<>>)
         \o digitsOf(n.num \div n.den)
         \o (IF n.den = 1 THEN <<>>
             ELSE <<".">> \o fractionDigitsOf(n.num % n.den, n.den))

\* The values a query parameter takes in the model.
ParamTexts ==
  { <<>>, <<"0">>, <<"1">>, <<"7">>, <<"6", "4">>, <<"5", "1", "2">>,
    <<"6", "4", "0">>, <<"0", "0", "7">>, <<"a", "b", "c">>,
    <<"1", "2", "p", "x">>, <<"-", "5">>, <<"2", ".", "5">>,
    <<" ", "8", " ">>, <<"+", "3">>, <<"0", ".", "0">>, <<"-", "0">>,
    <<".", "5">>, <<"5", ".">>, <<".">>, <<"1", ".", "2", "0">> }

ParamValues == {NoParam} \cup {[has |-> TRUE, value |-> t] : t \in ParamTexts}

Requests == [width : ParamValues, height : ParamValues]

PlaceholderInit ==
  /\ SessionInit
  /\ argBoard = EmptyBoard
  /\ call = "none"
  /\ result = null
  /\ repeated = FALSE
  /\ searchParams \in Requests
  /\ svg = NoResponse

GET ==
  /\ ~svg.sent
  /\ LET width == orElse(Number(get(searchParams, "width")),
                         number(FALSE, defaultSize, 1))
         height == orElse(Number(get(searchParams, "height")),
                          number(FALSE, defaultSize, 1))
     IN  svg' = [sent |-> TRUE,
                 width |-> numberToString(width),
                 height |-> numberToString(height)]
  /\ UNCHANGED <<searchParams, sessionVars, engineVars>>

PlaceholderNext == GET

PlaceholderSpec == PlaceholderInit /\ [][PlaceholderNext]_vars

----------------------------------------------------------------------------
(* Vocabulary of the properties, stated on the 3x3 grid itself. *)

Rows == {{3 * r, 3 * r + 1, 3 * r + 2} : r \in 0..2}
Columns == {{c, c + 3, c + 6} : c \in 0..2}
Diagonals == {{0, 4, 8}, {2, 4, 6}}
Lines == Rows \cup Columns \cup Diagonals

HasLine(b, m) == \E l \in Lines : \A i \in l : b[i] = m
AnyLine(b) == HasLine(b, "X") \/ HasLine(b, "O")
Full(b) == \A i \in Cells : b[i] # null
Count(b, m) == Cardinality({i \in Cells : b[i] = m})
Terminal(s) == s \in {"won", "draw"}

\* C1: a resetGame while the opponent's timer is pending cancels it (no
\* timer is pending after any resetGame), and from an empty board the only
\* step that changes board, turn or status is an accepted player click that
\* places one X: no O lands on the reset board.
C1_ResetDiscardsPendingMove ==
  [][ /\ lastOp' = "resetGame" => timer' = NoTimer
      /\ board = EmptyBoard =>
           \/ board' = EmptyBoard /\ isPlayerTurn' /\ gameStatus' = "playing"
           \/ /\ lastOp' = "click"
              /\ lastCell' \in Cells
              /\ board' = [EmptyBoard EXCEPT ![lastCell'] = "X"] ]_vars

C1_Witness == lastOp = "resetGame" /\ lastEffect = "cleared"

\* C2: gameStatus is "won" exactly when the board has a completed line,
\* whatever the number of empty cells; winner is "Player" exactly when the
\* status is "won" with an X line, "Computer" exactly when it is "won" with
\* an O line, and null otherwise.
C2_WonIffLine ==
  /\ gameStatus = "won" <=> AnyLine(board)
  /\ winner = "Player" <=> (gameStatus = "won" /\ HasLine(board, "X"))
  /\ winner = "Computer" <=> (gameStatus = "won" /\ HasLine(board, "O"))
  /\ gameStatus # "won" => winner = null

C2_Witness ==
  /\ gameStatus = "won"
  /\ winner = "Computer"
  /\ HasLine(board, "O")
  /\ Count(board, null) = 3

\* C3: gameStatus is "draw" exactly when the board is full and has no
\* completed line; a move that fills the last empty cell and completes a
\* line yields "won" and adds one to the winner's counter.
C3_DrawIffFullNoLine ==
  [][ /\ gameStatus = "draw" <=> (Full(board) /\ ~AnyLine(board))
      /\ gameStatus' = "draw" <=> (Full(board') /\ ~AnyLine(board'))
      /\ (~Full(board) /\ Full(board') /\ AnyLine(board')) =>
           /\ gameStatus' = "won"
           /\ winner' = "Player" =>
                score' = [score EXCEPT !.player = score.player + 1]
           /\ winner' = "Computer" =>
                score' = [score EXCEPT !.computer = score.computer + 1]
           /\ winner' # null ]_vars

C3_Witness ==
  /\ Full(board)
  /\ ~AnyLine(board)
  /\ gameStatus = "draw"
  /\ lastOp = "click"
  /\ board[lastCell] = "X"

\* C4: the status matches the board: "playing" exactly when the board has
\* no completed line and at least one empty cell, and otherwise exactly one
\* of "won" (a line) and "draw" (full, no line).
C4_PlayingIffOpen ==
  /\ gameStatus \in {"playing", "won", "draw"}
  /\ gameStatus = "playing" <=> (~AnyLine(board) /\ ~Full(board))
  /\ ~(gameStatus = "won" /\ ~AnyLine(board))
  /\ ~(gameStatus = "draw" /\ (AnyLine(board) \/ ~Full(board)))

C4_Witness ==
  /\ gameStatus = "playing"
  /\ Count(board, null) = 1
  /\ lastOp = "timer"

\* C5: in a terminal state no timer is pending and every step leaves board,
\* turn, status and winner unchanged, except a resetGame, which leads to
\* the initial state; a click there is rejected.
C5_TerminalIsFrozen ==
  [][ Terminal(gameStatus) =>
        /\ ~timer.pending
        /\ \/ UNCHANGED <<board, isPlayerTurn, gameStatus, winner>>
           \/ /\ lastOp' = "resetGame"
              /\ board' = EmptyBoard
              /\ isPlayerTurn'
              /\ gameStatus' = "playing"
              /\ winner' = null ]_vars

C5_Witness ==
  /\ Terminal(gameStatus)
  /\ lastOp = "rejected"
  /\ board[lastCell] = null

\* C6: accepted moves alternate: every mark placed differs from the mark
\* placed before it in the same game, and the first mark of a game is X.
C6_MovesAlternate ==
  [][ \A i \in Cells :
        (board[i] = null /\ board'[i] # null) =>
          /\ board'[i] # lastMover
          /\ lastMover = "none" => board'[i] = "X"
          /\ lastMover' = board'[i] ]_vars

C6_Witness ==
  /\ lastOp = "click"
  /\ lastMover = "X"
  /\ Count(board, "X") = 3
  /\ Count(board, "O") = 2

\* C7: a click on an occupied cell, or while the status is not "playing",
\* or while it is the opponent's turn, changes none of board, turn, status,
\* winner and score, and leaves the pending timer as it is.
C7_InvalidClickRejected ==
  [][ ( /\ lastOp' \in {"click", "rejected"}
        /\ lastCell' \in Cells
        /\ \/ board[lastCell'] # null
           \/ gameStatus # "playing"
           \/ ~isPlayerTurn ) =>
        UNCHANGED <<board, isPlayerTurn, gameStatus, winner, score, timer>> ]_vars

C7_Witness ==
  /\ lastOp = "rejected"
  /\ timer.pending
  /\ board[lastCell] = null

Tally(s, status, w) ==
  IF status = "draw" THEN [s EXCEPT !.draws = s.draws + 1]
  ELSE IF w = "Player" THEN [s EXCEPT !.player = s.player + 1]
  ELSE [s EXCEPT !.computer = s.computer + 1]

\* C8: the score changes only by resetScore (to zero) or by +1 on the one
\* counter of the result at the step that ends a game, and every step that
\* ends a game makes that increment.
C8_ScoreTalliedOnce ==
  [][ /\ score' # score =>
           \/ lastOp' = "resetScore" /\ score' = ZeroScore
           \/ /\ gameStatus = "playing"
              /\ Terminal(gameStatus')
              /\ score' = Tally(score, gameStatus', winner')
      /\ (gameStatus = "playing" /\ Terminal(gameStatus')) =>
           score' = Tally(score, gameStatus', winner') ]_vars

C8_Witness ==
  /\ gameStatus = "draw"
  /\ score.draws = 1
  /\ lastOp = "click"

\* C9: resetScore sets the three counters to 0, leaves board, turn, status
\* and winner unchanged, and does not touch the pending timer: the effect
\* is not re-run.
C9_ResetScoreFrame ==
  [][ lastOp' = "resetScore" =>
        /\ score' = ZeroScore
        /\ UNCHANGED <<board, isPlayerTurn, gameStatus, winner, timer>>
        /\ lastEffect' = "none" ]_vars

C9_Witness ==
  /\ lastOp = "resetScore"
  /\ timer.pending
  /\ score = ZeroScore

InitialSession ==
  /\ board = EmptyBoard
  /\ gameStatus = "playing"
  /\ isPlayerTurn = TRUE
  /\ winner = null

\* C10: the session starts with an empty board, status "playing", the
\* Player's turn and no winner, and resetGame from any state leads to that
\* state.
C10_ResetGameRestoresInitial ==
  /\ InitialSession
  /\ [][ lastOp' = "resetGame" => InitialSession' ]_vars

C10_Witness ==
  /\ lastOp = "resetGame"
  /\ InitialSession
  /\ score.computer = 1

----------------------------------------------------------------------------
(* Properties of the engine functions, checked under EngineSpec. *)

\* Cell i is empty and placing m there fills a line through i with m.
Completes(b, i, m) ==
  /\ b[i] = null
  /\ \E l \in Lines : i \in l /\ \A j \in l \ {i} : b[j] = m

WinningCells(b) == {i \in Cells : Completes(b, i, "O")}
BlockingCells(b) == {i \in Cells : Completes(b, i, "X")}
Lowest(S) == CHOOSE x \in S : \A y \in S : x <= y
Corners == {0, 2, 6, 8}
Edges == {1, 3, 5, 7}
EmptyIn(b, S) == {i \in S : b[i] = null}

\* The boards getComputerMove is specified for: the game is in progress.
InProgress(b) == ~AnyLine(b) /\ ~Full(b)

Returned == call = "getComputerMove"

ExampleWin ==
  [i \in Cells |-> IF i \in {0, 1} THEN "O" ELSE IF i = 4 THEN "X" ELSE null]

ExampleBlock ==
  [i \in Cells |-> IF i \in {0, 1} THEN "X" ELSE IF i = 4 THEN "O" ELSE null]

NoWinNoBlock(b) == WinningCells(b) = {} /\ BlockingCells(b) = {}

EdgesOnly(b) ==
  /\ b[4] # null
  /\ EmptyIn(b, Corners) = {}
  /\ EmptyIn(b, Edges) # {}

C16_AsStated ==
  (Returned /\ (Full(argBoard) \/ AnyLine(argBoard))) => result \notin Cells

\* C16: getComputerMove has no error outcome.  On a board with no empty cell
\* it returns undefined; on every other board, a completed line or not, it
\* returns the index of an empty cell of that board.
C16_InvalidBoardResult ==
  Returned =>
    /\ Full(argBoard) => result = undefined
    /\ ~Full(argBoard) => (result \in Cells /\ argBoard[result] = null)

C16_Witness ==
  /\ Returned
  /\ AnyLine(argBoard)
  /\ ~Full(argBoard)
  /\ result \in Cells
  /\ argBoard[result] = null

C16_WitnessFull ==
  /\ Returned
  /\ Full(argBoard)
  /\ result = undefined

\* C17: whenever the timer callback runs, the board it passes to
\* getComputerMove is the current board, has an empty cell and no completed
\* line, and the value returned is the index of an empty cell, where the O
\* is placed.
C17_CallbackBoardInProgress ==
  [][ lastOp' = "timer" =>
        /\ timer.pending
        /\ timer.board = board
        /\ InProgress(timer.board)
        /\ lastCell' \in Cells
        /\ board[lastCell'] = null
        /\ board' = [board EXCEPT ![lastCell'] = "O"] ]_vars

C17_Witness ==
  /\ lastOp = "timer"
  /\ gameStatus = "won"
  /\ lastCell \in Cells
  /\ board[lastCell] = "O"

\* The eight lines in the declared order: rows, columns, diagonals.
DeclaredLines ==
  [k \in 1..8 |->
     IF k <= 3 THEN {3 * (k - 1), 3 * (k - 1) + 1, 3 * (k - 1) + 2}
     ELSE IF k <= 6 THEN {k - 4, k - 1, k + 2}
     ELSE IF k = 7 THEN {0, 4, 8}
     ELSE {2, 4, 6}]

LineComplete(b, k, m) == \A i \in DeclaredLines[k] : b[i] = m

\* C18: checkWinner returns a mark only if a line is filled with that mark,
\* returns null exactly when no line is filled with one mark, and returns
\* the mark of the first filled line in the declared order.
C18_CheckWinnerFirstLine ==
  call = "checkWinner" =>
    /\ result \in {"X", "O", null}
    /\ result # null => HasLine(argBoard, result)
    /\ result = null <=> ~AnyLine(argBoard)
    /\ \A k \in 1..8 :
         ( /\ \E m \in {"X", "O"} : LineComplete(argBoard, k, m)
           /\ \A j \in 1..(k - 1) :
                \A m \in {"X", "O"} : ~LineComplete(argBoard, j, m) ) =>
           LineComplete(argBoard, k, result)

C18_Witness ==
  /\ call = "checkWinner"
  /\ HasLine(argBoard, "X")
  /\ HasLine(argBoard, "O")
  /\ LineComplete(argBoard, 4, "O")
  /\ LineComplete(argBoard, 6, "X")
  /\ result = "O"

\* C19: getAvailableMoves returns exactly the indices of the empty cells, in
\* strictly ascending order; its length plus the number of marked cells is
\* 9, and it is empty exactly when the board is full.
C19_AvailableMovesAscending ==
  call = "getAvailableMoves" =>
    /\ {result[k] : k \in 1..Len(result)} = EmptyIn(argBoard, Cells)
    /\ \A k \in 1..(Len(result) - 1) : result[k] < result[k + 1]
    /\ Len(result) + Count(argBoard, "X") + Count(argBoard, "O") = 9
    /\ Len(result) = 0 <=> Full(argBoard)

C19_Witness ==
  /\ call = "getAvailableMoves"
  /\ result = <<0, 4, 8>>

\* C20: checkDraw returns true exactly when every cell is marked, a
\* completed line or not: on a full board with a line it returns true, and
\* the evaluation after a move yields "won" there because the win check
\* comes first.
C20_CheckDrawIsBoardFull ==
  call = "checkDraw" =>
    /\ result = Full(argBoard)
    /\ (Full(argBoard) /\ AnyLine(argBoard)) =>
         /\ result = TRUE
         /\ playerMoveOutcome(argBoard) = "won"
         /\ computerMoveOutcome(argBoard) = "won"
    /\ (Full(argBoard) /\ ~AnyLine(argBoard)) =>
         /\ playerMoveOutcome(argBoard) = "draw"
         /\ computerMoveOutcome(argBoard) = "draw"

C20_Witness ==
  /\ call = "checkDraw"
  /\ Full(argBoard)
  /\ HasLine(argBoard, "X")
  /\ result = TRUE

C21_WitnessRepeated ==
  /\ call = "checkWinner"
  /\ repeated
  /\ result = "X"

----------------------------------------------------------------------------
(* Properties of the session, continued. *)

\* The replies the opponent's policy allows on b: the lowest winning cell,
\* else the lowest blocking cell, else the center, else any empty corner,
\* else any empty cell.
PolicyReplies(b) ==
  IF WinningCells(b) # {} THEN {Lowest(WinningCells(b))}
  ELSE IF BlockingCells(b) # {} THEN {Lowest(BlockingCells(b))}
  ELSE IF b[4] = null THEN {4}
  ELSE IF EmptyIn(b, Corners) # {} THEN EmptyIn(b, Corners)
  ELSE EmptyIn(b, Cells)

\* C22: the opponent replies by its win/block/center/corner/fallback policy
\* at every turn, and a Player win is only ever declared on a board with an
\* X line that the Player's last click completed; the witness is such a
\* win, reached from the empty board.
C22_PlayerWinAgainstPolicy ==
  [][ /\ lastOp' = "timer" => lastCell' \in PolicyReplies(board)
      /\ (winner # "Player" /\ winner' = "Player") =>
           /\ lastOp' = "click"
           /\ ~HasLine(board, "X")
           /\ HasLine(board', "X")
           /\ gameStatus' = "won" ]_vars

C22_Witness ==
  /\ gameStatus = "won"
  /\ winner = "Player"
  /\ HasLine(board, "X")
  /\ Count(board, "O") = Count(board, "X") - 1

\* The status the board calls for: the win check first, then the draw check.
Evaluated(b) ==
  IF AnyLine(b) THEN "won" ELSE IF Full(b) THEN "draw" ELSE "playing"

\* C23: an accepted move places the mark, then the status is evaluated on
\* the new board (win, then draw), and the turn is flipped only when the
\* game is still in progress: isPlayerTurn stays TRUE after a player's
\* terminal move and FALSE after an opponent's terminal move.
C23_MoveThenEvaluate ==
  [][ /\ lastOp' = "click" =>
           /\ isPlayerTurn
           /\ board' = [board EXCEPT ![lastCell'] = "X"]
           /\ gameStatus' = Evaluated(board')
           /\ isPlayerTurn' = (gameStatus' # "playing")
      /\ lastOp' = "timer" =>
           /\ ~isPlayerTurn
           /\ board' = [board EXCEPT ![lastCell'] = "O"]
           /\ gameStatus' = Evaluated(board')
           /\ isPlayerTurn' = (gameStatus' = "playing") ]_vars

C23_Witness ==
  /\ lastOp = "timer"
  /\ gameStatus = "won"
  /\ winner = "Computer"
  /\ isPlayerTurn = FALSE

\* C24: an accepted move changes exactly one cell, from empty to the
\* mover's mark, and no step other than resetGame changes a marked cell.
C24_OneCellPerMove ==
  [][ /\ lastOp' \in {"click", "timer"} =>
           \E i \in Cells :
             /\ board[i] = null
             /\ board'[i] = (IF lastOp' = "click" THEN "X" ELSE "O")
             /\ \A j \in Cells \ {i} : board'[j] = board[j]
      /\ lastOp' # "resetGame" =>
           \A i \in Cells : board[i] # null => board'[i] = board[i] ]_vars

C24_Witness ==
  /\ lastOp = "click"
  /\ Count(board, "X") = 5
  /\ board[lastCell] = "X"

OpponentToMove == gameStatus = "playing" /\ isPlayerTurn = FALSE

\* C25: under fair firing of the timer, whenever the game is in progress
\* and it is the opponent's turn, eventually the timer callback has placed
\* the opponent's mark or resetGame has intervened; either way it is no
\* longer the opponent's turn.
C25_OpponentEventuallyMoves ==
  OpponentToMove ~>
    (lastOp \in {"timer", "resetGame"} /\ ~OpponentToMove)

C25_Witness ==
  /\ lastOp = "timer"
  /\ gameStatus = "playing"
  /\ isPlayerTurn = TRUE
  /\ Count(board, "O") = 1

\* C26: a timer is pending exactly when the status is "playing" and it is
\* not the player's turn; the board it captured is the current board; a
\* timer is set only when none is pending or the pending one has just fired;
\* and every step that changes board, turn or status while a timer is pending
\* either is that timer firing or cancels it, as resetGame does.
C26_TimerPendingIffOpponentTurn ==
  [][ /\ timer.pending <=> OpponentToMove
      /\ timer'.pending <=> OpponentToMove'
      /\ timer'.pending => timer'.board = board'
      /\ lastEffect' = "set" => (~timer.pending \/ lastOp' = "timer")
      /\ ( /\ timer.pending
           /\ <<board, isPlayerTurn, gameStatus>>' #
                <<board, isPlayerTurn, gameStatus>>
           /\ lastOp' # "timer" ) =>
           (~timer'.pending /\ lastEffect' = "cleared")
      /\ (timer.pending /\ lastOp' = "resetGame") =>
           (~timer'.pending /\ lastEffect' = "cleared") ]_vars

C26_Witness ==
  /\ timer.pending
  /\ timer.board = board
  /\ Count(board, "X") = 3
  /\ lastOp = "click"

\* C27: no reachable board has a completed X line and a completed O line.
C27_NoDoubleWin == ~(HasLine(board, "X") /\ HasLine(board, "O"))

C27_Witness ==
  /\ HasLine(board, "O")
  /\ ~HasLine(board, "X")
  /\ Count(board, "X") = 4
  /\ Count(board, "O") = 4

\* C28: the board has as many X as O, or one X more; while the status is
\* "playing" it is the player's turn exactly when the counts are equal and
\* the opponent's turn exactly when there is one X more.
C28_MarkCounts ==
  /\ Count(board, "X") - Count(board, "O") \in {0, 1}
  /\ gameStatus = "playing" =>
       /\ isPlayerTurn = TRUE <=> Count(board, "X") = Count(board, "O")
       /\ isPlayerTurn = FALSE <=> Count(board, "X") = Count(board, "O") + 1

C28_Witness ==
  /\ gameStatus = "playing"
  /\ isPlayerTurn = FALSE
  /\ Count(board, "X") = 4
  /\ Count(board, "O") = 3

\* C29: after an opponent reply the board has an empty cell and the status
\* is not "draw"; the status becomes "draw" only by a player's click.
C29_OpponentNeverFillsBoard ==
  [][ /\ lastOp' = "timer" => (~Full(board') /\ gameStatus' # "draw")
      /\ (gameStatus # "draw" /\ gameStatus' = "draw") =>
           (lastOp' = "click" /\ Full(board')) ]_vars

C29_Witness ==
  /\ lastOp = "timer"
  /\ Count(board, "O") = 4
  /\ Count(board, null) = 1
  /\ gameStatus = "playing"
  /\ board[lastCell] = "O"

Marks(b) == Count(b, "X") + Count(b, "O")

\* C30: a game has at most 5 X and 4 O; every accepted move adds exactly one
\* mark; while the game is in progress the side to move can move (the player
\* has an empty cell to click, the opponent's timer is pending); and a board
\* with 9 marks is terminal: the game ends within 9 accepted moves.
C30_GameEndsWithinNineMoves ==
  [][ /\ Count(board', "X") <= 5
      /\ Count(board', "O") <= 4
      /\ lastOp' \in {"click", "timer"} => Marks(board') = Marks(board) + 1
      /\ lastOp' \notin {"click", "timer", "resetGame"} =>
           Marks(board') = Marks(board)
      /\ Marks(board') = 9 => Terminal(gameStatus')
      /\ gameStatus' = "playing" =>
           IF isPlayerTurn' THEN EmptyIn(board', Cells) # {}
           ELSE timer'.pending ]_vars

C30_Witness ==
  /\ Count(board, "X") = 5
  /\ Count(board, "O") = 4
  /\ gameStatus = "draw"

\* C31: resetGame never changes the score, whatever the state it is called
\* in, a game in progress with the opponent's move pending included; and the
\* abandoned game changes no counter afterwards: from the empty board a
\* reset leaves, no step other than resetScore changes the score.
C31_ResetGameKeepsScore ==
  [][ /\ (lastOp' = "resetGame" => score' = score)
      /\ (board = EmptyBoard /\ score' # score => lastOp' = "resetScore")
    ]_vars

\* A reset that abandoned a game while the opponent's move was pending.
C31_Witness ==
  /\ lastOp = "resetGame"
  /\ lastEffect = "cleared"
  /\ board = EmptyBoard
  /\ score = ZeroScore

\* A parameter written as a positive integer in plain decimal digits, and
\* the integer it denotes, read digit by digit from the left.
IsPositiveInteger(p) ==
  /\ p.has
  /\ p.value # <<>>
  /\ \A k \in 1..Len(p.value) : isDigit(p.value[k])
  /\ \E k \in 1..Len(p.value) : p.value[k] # "0"

RECURSIVE PlaceValue(_)
PlaceValue(text) ==
  IF text = <<>> THEN 0
  ELSE digitValue(text[1]) * pow10(Len(text) - 1) + PlaceValue(Tail(text))

\* The attribute text is the decimal numeral of n.
Denotes(text, n) ==
  /\ text # <<>>
  /\ \A k \in 1..Len(text) : isDigit(text[k])
  /\ text[1] # "0"
  /\ PlaceValue(text) = n

IsZeroParam(p) == p.has /\ p.value = <<"0">>

\* A parameter that is not a number: it holds a letter.
NotANumber(p) ==
  /\ p.has
  /\ \E k \in 1..Len(p.value) :
       ~isDigit(p.value[k]) /\ p.value[k] \notin {"+", "-", ".", " "}

Dimensions == {"width", "height"}

\* C32: in the SVG the GET handler returns, each of width and height is the
\* parameter's integer when the parameter is a positive integer, and 512
\* when the parameter is absent, is 0 or is not a number.
C32_PlaceholderSize ==
  svg.sent =>
    \A d \in Dimensions :
      LET p == searchParams[d]
      IN  /\ IsPositiveInteger(p) => Denotes(svg[d], PlaceValue(p.value))
          /\ (~p.has \/ IsZeroParam(p) \/ NotANumber(p))
               => svg[d] = <<"5", "1", "2">>

\* A response to a request with width=640 and no height.
C32_Witness ==
  /\ svg.sent
  /\ searchParams.width = [has |-> TRUE, value |-> <<"6", "4", "0">>]
  /\ ~searchParams.height.has
  /\ svg.width = <<"6", "4", "0">>
  /\ svg.height = <<"5", "1", "2">>

====
